---- MODULE Spec2Model ----
(***************************************************************************)
(* Tagging workflow of sticker-finder:                                     *)
(*   stickerfinder/helper/tag.py                                           *)
(*   stickerfinder/telegram/callback_handlers/tagging.py                   *)
(*   stickerfinder/helper/keyboard.py                                      *)
(*                                                                         *)
(* Strings are sequences of one-character strings, so that lower(),        *)
(* strip(), replace(), split(' ') and startswith() are computed and not    *)
(* assumed.                                                                *)
(***************************************************************************)
EXTENDS Integers, Sequences, FiniteSets, TLC

(***************************************************************************)
(* Bounds of the model.                                                    *)
(***************************************************************************)
\* words per incoming text
MaxWords == 2
\* Change records a run may create
MaxChanges == 1
\* stickers in the store: the first MaxStickers - 1 form set "s1", the last
\* one is the only sticker of set "s2"
MaxStickers == 3
\* message ids the transport hands out
MaxMsgId == 1
\* pieces per text given to the normalizer on its own
MaxPieces == 3

(***************************************************************************)
(* Program constants.                                                      *)
(***************************************************************************)
\* get_tags_from_text(text, limit=15)
TagLimit == 15
\* raw_tags = raw_tags[:10]
TagCap == 10
\* Python's None, for chat.current_sticker, chat.last_sticker_message_id and
\* the result of Query.get on an unknown id
None == 0

(***************************************************************************)
(* Python string primitives.                                               *)
(***************************************************************************)
\* str.lower() on the characters the model's texts use
LowerChar(c) ==
    CASE c = "A" -> "a"
      [] c = "B" -> "b"
      [] c = "T" -> "t"
      [] OTHER -> c

Lower(s) == [i \in 1..Len(s) |-> LowerChar(s[i])]

Whitespace == {" ", "\t", "\n"}

RECURSIVE LStrip(_)
LStrip(s) ==
    IF s # <<>> /\ Head(s) \in Whitespace THEN LStrip(Tail(s)) ELSE s

RECURSIVE RStrip(_)
RStrip(s) ==
    IF s # <<>> /\ s[Len(s)] \in Whitespace
    THEN RStrip(SubSeq(s, 1, Len(s) - 1))
    ELSE s

\* str.strip()
Strip(s) == RStrip(LStrip(s))

\* str.startswith(p)
StartsWith(s, p) == Len(s) >= Len(p) /\ SubSeq(s, 1, Len(p)) = p

\* `sub in s` on strings
Contains(s, sub) ==
    \E i \in 1..(Len(s) - Len(sub) + 1) : SubSeq(s, i, i + Len(sub) - 1) = sub

\* str.replace(c, '') for a one-character c
RemoveChar(s, c) == SelectSeq(s, LAMBDA x : x # c)

RECURSIVE RemoveChars(_, _)
RemoveChars(s, cs) ==
    IF cs = <<>> THEN s ELSE RemoveChars(RemoveChar(s, Head(cs)), Tail(cs))

\* str.split(' '): one field per single space, empty fields kept
RECURSIVE SplitFrom(_, _, _)
SplitFrom(s, cur, acc) ==
    IF s = <<>> THEN Append(acc, cur)
    ELSE IF Head(s) = " " THEN SplitFrom(Tail(s), <<>>, Append(acc, cur))
    ELSE SplitFrom(Tail(s), Append(cur, Head(s)), acc)

Split(s) == SplitFrom(s, <<>>, <<>>)

\* ' '.join(words)
RECURSIVE Join(_)
Join(ws) ==
    IF ws = <<>> THEN <<>>
    ELSE IF Len(ws) = 1 THEN ws[1]
    ELSE ws[1] \o <<" ">> \o Join(Tail(ws))

\* list(OrderedDict.fromkeys(tags)): first occurrences, in order
RECURSIVE DedupFrom(_, _)
DedupFrom(s, acc) ==
    IF s = <<>> THEN acc
    ELSE IF \E i \in 1..Len(acc) : acc[i] = Head(s)
         THEN DedupFrom(Tail(s), acc)
         ELSE DedupFrom(Tail(s), Append(acc, Head(s)))

Dedup(s) == DedupFrom(s, <<>>)

\* seq[:n]
Take(s, n) == SubSeq(s, 1, IF Len(s) < n THEN Len(s) ELSE n)

Range(s) == {s[i] : i \in 1..Len(s)}

(***************************************************************************)
(* Word lists the helper package supplies to tag.py.                       *)
(***************************************************************************)
\* stickerfinder.helper.corrections.ignored_characters
ignored_characters == <<"\n", ",", ".", "!", "?">>

\* stickerfinder.helper.blacklist
blacklist == { <<"x", "x">> }

telegramme == <<"t", "e", "l", "e", "g", "r", "a", "m", "m", "e">>

(***************************************************************************)
(* get_tags_from_text                                                      *)
(***************************************************************************)
get_tags_from_text(original_text, limit) ==
    LET text    == RemoveChars(Strip(Lower(original_text)), ignored_characters)
        fields  == Split(text)
        tags1   == SelectSeq([i \in 1..Len(fields) |-> Strip(fields[i])],
                             LAMBDA t : t # <<>>)
        tags2   == SelectSeq(tags1, LAMBDA t : ~Contains(t, telegramme))
        tags3   == IF Len(tags2) > 0 /\ StartsWith(original_text, <<"@">>)
                      /\ Contains(tags2[1], <<"b", "o", "t">>)
                   THEN Tail(tags2) ELSE tags2
        tags4   == [i \in 1..Len(tags3) |->
                      IF StartsWith(tags3[i], <<"#">>) THEN Tail(tags3[i])
                      ELSE tags3[i]]
        tags5   == Dedup(tags4)
        tags6   == SelectSeq(tags5, LAMBDA t : t \notin blacklist)
    IN  Take(tags6, limit)

(***************************************************************************)
(* Entities.                                                               *)
(***************************************************************************)
Stickers == 1..MaxStickers

\* an id no Sticker row has: session.query(Sticker).get(id) is None
MissingSticker == MaxStickers + 1

MsgIds == 1..MaxMsgId

SetNames == {"s1", "s2", "new"}

\* StickerSet.stickers, the ordered stickers of a set
SetStickers(name) ==
    CASE name = "s1" -> [i \in 1..(MaxStickers - 1) |-> i]
      [] name = "s2" -> <<MaxStickers>>
      [] OTHER -> <<>>

\* Sticker.sticker_set
sticker_set(s) == IF s < MaxStickers THEN "s1" ELSE "s2"

Users == {"u1", "u2"}

\* User.is_default_language
is_default_language(user) == user = "u1"

TagModes == {"NONE", "STICKER_SET", "RANDOM", "SINGLE_STICKER"}

\* Tag.get_or_create(session, name, is_default_language, emoji): the tag of
\* that key, created on first use
Tag_get_or_create(name, default_language, emoji) ==
    [name |-> name, is_default_language |-> default_language, emoji |-> emoji]

\* len(reward_messages[...]) thresholds of stickerfinder.helper.reward_messages,
\* scaled to the number of changes a run creates
reward_messages == {1}

(***************************************************************************)
(* Inputs.                                                                 *)
(***************************************************************************)
\* words of an incoming text: a plain tag and an upper-case hashtag
Words == { <<"a">>, <<"#", "B">> }

SeqsUpTo(S, n) == UNION {[1..k -> S] : k \in 0..n}

\* incoming texts: up to MaxWords words, or the /tag command and its words
Texts ==
    {Join(ws) : ws \in SeqsUpTo(Words, MaxWords)}
        \cup {Join(<< <<"/", "t", "a", "g">> >> \o ws) :
                ws \in SeqsUpTo(Words, MaxWords - 1)}

\* the texts and the user of the session specification
SessionTexts == { <<"a">> }

SessionUsers == {"u1"}

\* Sticker.emoji of the transport, a string of emoji characters
RawEmojis == { <<"e">>, <<"e", "e">> }

\* tag_sticker(..., tg_chat=None, chat=None, ..., single_sticker=False)
CallContexts ==
    { [tg_chat |-> FALSE, chat |-> FALSE, single_sticker |-> FALSE],
      [tg_chat |-> TRUE,  chat |-> TRUE,  single_sticker |-> FALSE],
      [tg_chat |-> TRUE,  chat |-> TRUE,  single_sticker |-> TRUE] }

(***************************************************************************)
(* State.                                                                  *)
(***************************************************************************)
VARIABLES
    tags,             \* Sticker.tags, as the session sees them
    original_emojis,  \* Sticker.original_emojis, as the session sees them
    changes,          \* the Change rows the session holds, oldest first
    db,               \* what is committed: [tags, original_emojis, changes]
    pc,               \* position of the running tag_sticker call
    call,             \* arguments and locals of the latest tag_sticker call
    chat,             \* Chat: [tag_mode, current_sticker, last_sticker_message_id]
    sets,             \* StickerSet rows, by name
    last              \* the latest session handler: what it was given and did

vars == <<tags, original_emojis, changes, db, pc, call, chat, sets, last>>

engineVars == <<tags, original_emojis, changes, db, pc, call>>

sessionVars == <<chat, sets, last>>

SessionView == [tags |-> tags, original_emojis |-> original_emojis,
                changes |-> changes]

NoCall == [exit |-> None, res |-> "none", out |-> <<>>, sticker |-> None,
           replace |-> FALSE]

NoHandler == [op |-> "none"]

NoneChat == [tag_mode |-> "NONE", current_sticker |-> None,
             last_sticker_message_id |-> None]

(***************************************************************************)
(* tag_sticker: the pure parts.                                            *)
(***************************************************************************)
\* tag.py 184-190: a text that starts with /tag is replaced by the list
\* text.split(' ')[1:], and get_tags_from_text calls .lower() on that list
tag_command_raises(text) == StartsWith(Lower(text), <<"/", "t", "a", "g">>)

\* tag.py 184, 190, 197
raw_tags(text) == Take(get_tags_from_text(Lower(text), TagLimit), TagCap)

\* tag.py 219-221
incoming_tags(raw, user) ==
    [i \in 1..Len(raw) |->
        Tag_get_or_create(raw[i], is_default_language(user), FALSE)]

\* tag.py 224-225 without the test of 225: every incoming tag counts as new
new_tags_unfiltered(incoming, sticker_tags) == incoming

\* tag.py 224-225
new_tags(incoming, sticker_tags) ==
    SelectSeq(incoming, LAMBDA t : t \notin sticker_tags)

\* tag.py 238 left out: the incoming tags replace the original emojis too
merge_original_emojis_dropped(incoming, emojis) == Range(incoming)

\* tag.py 238
merge_original_emojis(incoming, emojis) == Range(incoming) \cup emojis

\* tag.py 240 with the two lists swapped
removed_tags_inverted(sticker_tags, merged) == merged \ sticker_tags

\* tag.py 240
removed_tags(sticker_tags, merged) == sticker_tags \ merged

\* tag.py 243-244 with the append written as an assignment of the new tags
append_new_tags_overwrite(sticker_tags, new) == Range(new)

\* tag.py 243-244
append_new_tags(sticker_tags, new) == sticker_tags \cup Range(new)

\* tag.py 247-249 with new_tags and removed_tags in each other's place
Change_swapped(user, sticker, new, removed) ==
    [user |-> user, sticker |-> sticker,
     is_default_language |-> is_default_language(user),
     added |-> removed, removed |-> Range(new)]

\* tag.py 247-249
Change(user, sticker, new, removed) ==
    [user |-> user, sticker |-> sticker,
     is_default_language |-> is_default_language(user),
     added |-> Range(new), removed |-> removed]

\* len(user.changes)
user_changes(user) ==
    Cardinality({i \in 1..Len(changes) : changes[i].user = user})

\* tag.py 200: the reward message is due
reward_due(ctx, user) == ctx.tg_chat /\ user_changes(user) \in reward_messages

(***************************************************************************)
(* tag_sticker: the steps. The session's objects change at 241/244 and 250 *)
(* and become visible to other sessions at the commit of 229 or 252.       *)
(* call.exit is the line of tag.py at which the call left the function.    *)
(***************************************************************************)
RawTagsOf == [t \in Texts \cup SessionTexts |-> raw_tags(t)]

CommandRaises == [t \in Texts \cup SessionTexts |-> tag_command_raises(t)]

\* what a finished call leaves in `call`
Finished(line, res, out, sticker, replace) ==
    [exit |-> line, res |-> res, out |-> out, sticker |-> sticker,
     replace |-> replace]

\* tag.py 184-230, for one choice of the arguments; tg_ok is whether the
\* transport accepts the reward message
TagStickerCallWith(text, sticker, user, replace, ctx, tg_ok) ==
    LET raw == RawTagsOf[text]
        incoming == incoming_tags(raw, user)
        new == new_tags(incoming, tags[sticker])
        due == reward_due(ctx, user)
        out == IF due THEN <<"reward">> ELSE <<>>
        R == [R |-> Range(incoming)]
    IN  /\ pc = "idle"
        /\ IF CommandRaises[text]
           THEN /\ call' = Finished(190, "AttributeError", <<>>, sticker, replace)
                /\ pc' = "idle"
                /\ UNCHANGED db
           ELSE IF Len(raw) = 0
           THEN /\ call' = Finished(194, "returned", <<>>, sticker, replace) @@ R
                /\ pc' = "idle"
                /\ UNCHANGED db
           ELSE IF due /\ ~tg_ok
           THEN /\ call' = Finished(202, "TransportError", <<>>, sticker, replace) @@ R
                /\ pc' = "idle"
                /\ UNCHANGED db
           ELSE IF Len(new) = 0
           THEN /\ call' = Finished(230, "returned", out, sticker, replace) @@ R
                /\ pc' = "idle"
                /\ db' = SessionView
           ELSE /\ Len(changes) < MaxChanges
                /\ call' = Finished(None, "running", out, sticker, replace) @@ R
                            @@ [user |-> user,
                                ctx |-> ctx, T |-> tags[sticker],
                                n |-> Len(changes),
                                incoming_tags |-> incoming, new_tags |-> new,
                                removed_tags |-> {}]
                /\ pc' = "mutate"
                /\ UNCHANGED db
        /\ UNCHANGED <<tags, original_emojis, changes>>
        /\ UNCHANGED sessionVars

TagStickerCall(texts, stickers, users) ==
    \E text \in texts, sticker \in stickers, user \in users,
       replace \in BOOLEAN, ctx \in CallContexts :
        \E tg_ok \in IF reward_due(ctx, user) THEN BOOLEAN ELSE {TRUE} :
            TagStickerCallWith(text, sticker, user, replace, ctx, tg_ok)

\* tag.py 234-244 followed by a session.commit() ahead of the Change of 247
TagStickerMutateCommitted ==
    /\ pc = "mutate"
    /\ LET s == call.sticker
       IN  IF call.replace
           THEN LET merged == merge_original_emojis(call.incoming_tags,
                                                    original_emojis[s])
                IN  /\ call' = [call EXCEPT
                                  !.removed_tags = removed_tags(tags[s], merged)]
                    /\ tags' = [tags EXCEPT ![s] = merged]
           ELSE /\ call' = call
                /\ tags' = [tags EXCEPT ![s] = append_new_tags(@, call.new_tags)]
    /\ db' = [tags |-> tags', original_emojis |-> original_emojis,
              changes |-> changes]
    /\ pc' = "change"
    /\ UNCHANGED <<original_emojis, changes>>
    /\ UNCHANGED sessionVars

\* tag.py 234-244
TagStickerMutate ==
    /\ pc = "mutate"
    /\ LET s == call.sticker
       IN  IF call.replace
           THEN LET merged == merge_original_emojis(call.incoming_tags,
                                                    original_emojis[s])
                IN  /\ call' = [call EXCEPT
                                  !.removed_tags = removed_tags(tags[s], merged)]
                    /\ tags' = [tags EXCEPT ![s] = merged]
           ELSE /\ call' = call
                /\ tags' = [tags EXCEPT ![s] = append_new_tags(@, call.new_tags)]
    /\ pc' = "change"
    /\ UNCHANGED <<original_emojis, changes, db>>
    /\ UNCHANGED sessionVars

\* tag.py 247-250
TagStickerChange ==
    /\ pc = "change"
    /\ changes' = Append(changes, Change(call.user, call.sticker,
                                         call.new_tags, call.removed_tags))
    /\ pc' = "commit"
    /\ UNCHANGED <<tags, original_emojis, db, call>>
    /\ UNCHANGED sessionVars

\* tag.py 252
TagStickerCommit ==
    /\ pc = "commit"
    /\ db' = SessionView
    /\ pc' = "markup"
    /\ UNCHANGED <<tags, original_emojis, changes, call>>
    /\ UNCHANGED sessionVars

\* tag.py 255-259; tg_ok is whether the transport accepts the keyboard edit
TagStickerMarkup ==
    /\ pc = "markup"
    /\ \E tg_ok \in BOOLEAN :
        LET due == /\ call.ctx.tg_chat /\ call.ctx.chat
                   /\ ~call.ctx.single_sticker
                   /\ chat.last_sticker_message_id # None
            Left(line, res, out) ==
                Finished(line, res, out, call.sticker, call.replace)
                    @@ [R |-> call.R, user |-> call.user, T |-> call.T]
        IN  /\ (tg_ok \/ (due /\ chat.current_sticker # None))
            /\ call' = IF ~due THEN Left(259, "returned", call.out)
                       ELSE IF chat.current_sticker = None
                       THEN Left(256, "AttributeError", call.out)
                       ELSE IF ~tg_ok
                       THEN Left(257, "TransportError", call.out)
                       ELSE Left(259, "returned",
                                 Append(call.out, "fix_keyboard"))
    /\ pc' = "idle"
    /\ UNCHANGED <<tags, original_emojis, changes, db>>
    /\ UNCHANGED sessionVars

(***************************************************************************)
(* add_original_emojis                                                     *)
(***************************************************************************)
RECURSIVE add_original_emojis(_, _)
add_original_emojis(sticker, raw_emojis) ==
    IF raw_emojis = <<>> THEN sticker
    ELSE LET emoji == Tag_get_or_create(<<Head(raw_emojis)>>, TRUE, TRUE)
             next == [tags |-> sticker.tags \cup {emoji},
                      original_emojis |-> sticker.original_emojis \cup {emoji}]
         IN  add_original_emojis(next, Tail(raw_emojis))

AddOriginalEmojis(stickers) ==
    /\ pc = "idle"
    /\ \E s \in stickers, raw_emojis \in RawEmojis :
        LET after == add_original_emojis(
                        [tags |-> tags[s], original_emojis |-> original_emojis[s]],
                        raw_emojis)
        IN  /\ tags' = [tags EXCEPT ![s] = after.tags]
            /\ original_emojis' = [original_emojis EXCEPT ![s] = after.original_emojis]
    /\ UNCHANGED <<changes, db, pc, call>>
    /\ UNCHANGED sessionVars

\* the commit of the caller of add_original_emojis, which ends its transaction
SessionCommit ==
    /\ pc = "idle"
    /\ db # SessionView
    /\ db' = SessionView
    /\ UNCHANGED <<tags, original_emojis, changes, pc, call>>
    /\ UNCHANGED sessionVars

(***************************************************************************)
(* The tag change engine on its own.                                       *)
(***************************************************************************)
\* the stickers the engine specification tags
EngineStickers == {1}

TagInitChats ==
    { [tag_mode |-> "RANDOM", current_sticker |-> 1,
       last_sticker_message_id |-> 1] }

DefaultSet(name) ==
    [complete |-> name # "new",
     is_default_language |-> TRUE, banned |-> FALSE, nsfw |-> FALSE,
     furry |-> FALSE, deluxe |-> FALSE, completely_tagged |-> FALSE]

\* tags earlier tagging left on a sticker: one of each language
TextTags ==
    { Tag_get_or_create(<<"a">>, TRUE, FALSE),
      Tag_get_or_create(<<"b">>, FALSE, FALSE) }

EmojiTags ==
    {Tag_get_or_create(<<r[i]>>, TRUE, TRUE) :
        <<r, i>> \in {x \in RawEmojis \X (1..2) : x[2] <= Len(x[1])}}

\* a sticker starts with any tags earlier tagging left on it; its emoji tags
\* are its original emojis
InitEngine ==
    /\ \E given \in [EngineStickers -> SUBSET (TextTags \cup EmojiTags)] :
        tags = [s \in Stickers |->
                  IF s \in EngineStickers THEN given[s] ELSE {}]
    /\ original_emojis = [s \in Stickers |-> tags[s] \cap EmojiTags]
    /\ changes = <<>>
    /\ db = [tags |-> tags, original_emojis |-> original_emojis,
             changes |-> changes]
    /\ pc = "idle"
    /\ call = NoCall

InitTag ==
    /\ InitEngine
    /\ chat \in TagInitChats
    /\ sets = [n \in SetNames |-> DefaultSet(n)]
    /\ last = NoHandler

NextTag ==
    \/ TagStickerCall(Texts, EngineStickers, Users)
    \/ TagStickerMutate
    \/ TagStickerChange
    \/ TagStickerCommit
    \/ TagStickerMarkup
    \/ AddOriginalEmojis(EngineStickers)
    \/ SessionCommit

SpecTag == InitTag /\ [][NextTag]_vars

(***************************************************************************)
(* Session handlers. A handler runs to completion before the next update   *)
(* of the chat is handled, so each one is a function of a run record       *)
(*   [chat, sets, out, res, ret, n, fail]                                  *)
(* out is the trace of the calls it made to the transport and to           *)
(* Chat.cancel, res is "run" until it raises, ret is its return value, n   *)
(* counts its transport calls and the fail-th of them raises.              *)
(***************************************************************************)
Running(m) == m.res = "run"

Ev(msg, count) == [msg |-> msg, count |-> count]

\* stickerfinder.helper.telegram.call_tg_func: the transport call returns or
\* fails with a TransportError
call_tg_func(m, msg, count) ==
    IF ~Running(m) THEN m
    ELSE IF m.n + 1 = m.fail
    THEN [m EXCEPT !.n = @ + 1, !.res = "TransportError"]
    ELSE [m EXCEPT !.n = @ + 1, !.out = Append(@, Ev(msg, count))]

Raise(m, error) == IF Running(m) THEN [m EXCEPT !.res = error] ELSE m

\* Chat.cancel(bot): back to no tagging session
Chat_cancel(m) ==
    IF ~Running(m) THEN m
    ELSE [m EXCEPT !.chat = NoneChat, !.out = Append(@, Ev("chat.cancel", 0))]

\* session.query(Sticker).get(payload)
Sticker_get(payload) == IF payload \in Stickers THEN payload ELSE None

\* tag.py 27-30: the message is built from chat.current_sticker
current_sticker_tags_message(m) ==
    IF m.chat.current_sticker = None THEN Raise(m, "AttributeError") ELSE m

\* keyboard.py 126: get_tagging_keyboard() takes no argument; tag.py 50
\* calls it with one
get_tagging_keyboard(m) == Raise(m, "TypeError")

\* tag.py 45-50; no call reaches line 52
send_tag_messages(m) == get_tagging_keyboard(current_sticker_tags_message(m))

\* tag.py 170-173: the rows of Sticker joined with the user's changes
tagged_count(user) ==
    Cardinality({i \in 1..Len(changes) : changes[i].user = user})

\* tag.py 167-176 without the test of the tag mode at 169
send_tagged_count_message_always(m, user) ==
    IF Running(m)
    THEN call_tg_func(m, "tagged_count", tagged_count(user))
    ELSE m

\* tag.py 167-176
send_tagged_count_message(m, user) ==
    IF Running(m) /\ m.chat.tag_mode \in {"STICKER_SET", "RANDOM"}
    THEN call_tg_func(m, "tagged_count", tagged_count(user))
    ELSE m

\* tag.py 90-97 without the nsfw filter of 96
base_query_with_nsfw(ss) ==
    {s \in Stickers :
        /\ \A i \in 1..Len(changes) : changes[i].sticker # s
        /\ ss[sticker_set(s)].is_default_language
        /\ ~ss[sticker_set(s)].banned
        /\ ~ss[sticker_set(s)].furry}

\* tag.py 90-97: stickers without changes, of default-language sets that are
\* neither banned, nsfw nor furry
base_query(ss) ==
    {s \in Stickers :
        /\ \A i \in 1..Len(changes) : changes[i].sticker # s
        /\ ss[sticker_set(s)].is_default_language
        /\ ~ss[sticker_set(s)].banned
        /\ ~ss[sticker_set(s)].nsfw
        /\ ~ss[sticker_set(s)].furry}

\* tag.py 101-109: what the two random queries can return
random_sticker(ss) ==
    LET deluxe == {s \in base_query(ss) : ss[sticker_set(s)].deluxe}
    IN  IF deluxe # {} THEN deluxe
        ELSE IF base_query(ss) # {} THEN base_query(ss)
        ELSE {None}

\* tag.py 73-79: the index (from 1) of the sticker to advance from, or 0
next_index(stickers, current) ==
    LET found == {i \in 1..Len(stickers) :
                    stickers[i] = current /\ i + 1 <= Len(stickers)}
    IN  IF found = {} THEN 0 ELSE CHOOSE i \in found : \A j \in found : i <= j

\* tag.py 70-86 without the assignment of 82
handle_next_set_unflagged(m, user) ==
    IF m.chat.current_sticker = None THEN Raise(m, "AttributeError")
    ELSE
    LET name == sticker_set(m.chat.current_sticker)
        stickers == SetStickers(name)
        i == next_index(stickers, m.chat.current_sticker)
    IN  IF i # 0
        THEN send_tag_messages([m EXCEPT !.chat.current_sticker = stickers[i + 1]])
        ELSE LET m2 == call_tg_func(m, "full_set_tagged", 0)
                 m3 == send_tagged_count_message(m2, user)
             IN  Chat_cancel(m3)

\* tag.py 70-86
handle_next_set(m, user) ==
    IF m.chat.current_sticker = None THEN Raise(m, "AttributeError")
    ELSE
    LET name == sticker_set(m.chat.current_sticker)
        stickers == SetStickers(name)
        i == next_index(stickers, m.chat.current_sticker)
    IN  IF i # 0
        THEN send_tag_messages([m EXCEPT !.chat.current_sticker = stickers[i + 1]])
        ELSE LET m1 == [m EXCEPT !.sets[name].completely_tagged = TRUE]
                 m2 == call_tg_func(m1, "full_set_tagged", 0)
                 m3 == send_tagged_count_message(m2, user)
             IN  Chat_cancel(m3)

\* tag.py 89-120; sticker is the row the random query returned
handle_next_random(m, sticker) ==
    LET m1 == IF sticker = None
              THEN Chat_cancel(call_tg_func(m, "all_tagged", 0))
              ELSE m
        m2 == IF Running(m1) THEN [m1 EXCEPT !.chat.current_sticker = sticker]
              ELSE m1
    IN  send_tag_messages(m2)

\* tag.py 67-120
handle_next(m, user, sticker) ==
    IF ~Running(m) THEN m
    ELSE IF m.chat.tag_mode = "STICKER_SET" THEN handle_next_set(m, user)
    ELSE IF m.chat.tag_mode = "RANDOM" THEN handle_next_random(m, sticker)
    ELSE m

\* StickerSet.get_or_create(session, name, chat, user): the row of that
\* name; a set first referred to ("new") is not complete and has no stickers
StickerSet_get_or_create(m, name) == m.sets[name]

\* tag.py 123-134 with the assignment of 130 ahead of the test of 126
initialize_set_tagging_mode_first(m, name) ==
    LET sticker_set_row == StickerSet_get_or_create(m, name)
        m1 == [m EXCEPT !.chat.tag_mode = "STICKER_SET"]
    IN  IF sticker_set_row.complete = FALSE
        THEN [m1 EXCEPT !.ret = "being_added"]
        ELSE LET m2 == [m1 EXCEPT !.chat.current_sticker = SetStickers(name)[1]]
                 m3 == call_tg_func(m2, "tag_text", 0)
             IN  send_tag_messages(m3)

\* tag.py 123-134
initialize_set_tagging(m, name) ==
    LET sticker_set_row == StickerSet_get_or_create(m, name)
    IN  IF sticker_set_row.complete = FALSE
        THEN [m EXCEPT !.ret = "being_added"]
        ELSE LET m2 == [m EXCEPT !.chat.tag_mode = "STICKER_SET",
                                  !.chat.current_sticker = SetStickers(name)[1]]
                 m3 == call_tg_func(m2, "tag_text", 0)
             IN  send_tag_messages(m3)

\* tagging.py 23-34: send_tagged_count_message returns None
handle_cancel_tagging(m, user) ==
    LET m1 == send_tagged_count_message(m, user)
        m2 == call_tg_func(m1, "answer_canceled", 0)
        m3 == call_tg_func(m2, "commands_canceled", 0)
    IN  Chat_cancel(m3)

\* tagging.py 37-43
handle_fix_sticker_tags(m, payload) ==
    LET m1 == [m EXCEPT !.chat.current_sticker = Sticker_get(payload)]
        m2 == IF m1.chat.tag_mode \notin {"STICKER_SET", "RANDOM"}
              THEN [m1 EXCEPT !.chat.tag_mode = "SINGLE_STICKER"]
              ELSE m1
    IN  send_tag_messages(m2)

\* tagging.py 46-54
handle_continue_tagging_set(m, payload) ==
    LET m1 == Chat_cancel(m)
        m2 == [m1 EXCEPT !.chat.tag_mode = "STICKER_SET",
                         !.chat.current_sticker = Sticker_get(payload)]
    IN  send_tag_messages(m2)

\* tagging.py 14-20
handle_tag_next(m, user, sticker) ==
    LET current_sticker == m.chat.current_sticker
        m1 == handle_next(m, user, sticker)
    IN  IF Running(m1) /\ m1.chat.current_sticker # None
        THEN IF current_sticker = None THEN Raise(m1, "AttributeError")
             ELSE call_tg_func(m1, "fix_keyboard", 0)
        ELSE m1

(***************************************************************************)
(* The session handlers as actions.                                        *)
(***************************************************************************)
\* the transport call of a handler that fails; 0 for none
FailPoints == 0..3

Start(fail) == [chat |-> chat, sets |-> sets, out |-> <<>>, res |-> "run",
                ret |-> "None", n |-> 0, fail |-> fail]

\* the handler made its fail-th call, or no call was to fail
Feasible(m) == m.fail = 0 \/ m.res = "TransportError"

Handled(op, arg, m) ==
    /\ pc = "idle"
    /\ Feasible(m)
    /\ chat' = m.chat
    /\ sets' = m.sets
    /\ last' = [op |-> op, arg |-> arg, pre |-> chat, out |-> m.out,
                res |-> IF m.res = "run" THEN "returned" ELSE m.res,
                ret |-> m.ret]
    /\ UNCHANGED engineVars

HandleNext ==
    \E user \in SessionUsers, fail \in FailPoints, sticker \in random_sticker(sets) :
        Handled("handle_next", "-", handle_next(Start(fail), user, sticker))

HandleTagNext ==
    \E user \in SessionUsers, fail \in FailPoints, sticker \in random_sticker(sets) :
        Handled("handle_tag_next", "-", handle_tag_next(Start(fail), user, sticker))

InitializeSetTagging ==
    \E name \in SetNames, fail \in FailPoints :
        Handled("initialize_set_tagging", name,
                initialize_set_tagging(Start(fail), name))

HandleCancelTagging ==
    \E user \in SessionUsers, fail \in FailPoints :
        Handled("handle_cancel_tagging", "-", handle_cancel_tagging(Start(fail), user))

HandleFixStickerTags ==
    \E payload \in Stickers \cup {MissingSticker}, fail \in FailPoints :
        Handled("handle_fix_sticker_tags", "-",
                handle_fix_sticker_tags(Start(fail), payload))

HandleContinueTaggingSet ==
    \E payload \in Stickers \cup {MissingSticker}, fail \in FailPoints :
        Handled("handle_continue_tagging_set", "-",
                handle_continue_tagging_set(Start(fail), payload))

(***************************************************************************)
(* The session state machine.                                              *)
(***************************************************************************)
Flags(complete, lang, banned, nsfw, furry, deluxe) ==
    [complete |-> complete, is_default_language |-> lang,
     banned |-> banned, nsfw |-> nsfw, furry |-> furry, deluxe |-> deluxe,
     completely_tagged |-> FALSE]

\* the rows set "s1" can start from: fit for random tagging (plain, deluxe,
\* still importing) or not of the default language
S1Profiles ==
    { Flags(TRUE,  TRUE,  FALSE, FALSE, FALSE, FALSE),
      Flags(TRUE,  TRUE,  FALSE, FALSE, FALSE, TRUE),
      Flags(FALSE, TRUE,  FALSE, FALSE, FALSE, FALSE),
      Flags(TRUE,  FALSE, FALSE, FALSE, FALSE, TRUE) }

\* the rows set "s2" can start from: fit for random tagging (plain, deluxe)
\* or banned, nsfw or furry
S2Profiles ==
    { Flags(TRUE,  TRUE,  FALSE, FALSE, FALSE, FALSE),
      Flags(TRUE,  TRUE,  FALSE, FALSE, FALSE, TRUE),
      Flags(TRUE,  TRUE,  TRUE,  FALSE, FALSE, TRUE),
      Flags(TRUE,  TRUE,  FALSE, TRUE,  FALSE, FALSE),
      Flags(TRUE,  TRUE,  FALSE, FALSE, TRUE,  FALSE) }

\* a chat between two updates: no session, or a session on a sticker
RestingChats ==
    {NoneChat} \cup
    [tag_mode : TagModes \ {"NONE"}, current_sticker : Stickers,
     last_sticker_message_id : MsgIds \cup {None}]

SessionTag == Tag_get_or_create(<<"a">>, TRUE, FALSE)

\* the first k stickers were tagged once by the session user
InitTagged(k) ==
    /\ tags = [s \in Stickers |-> IF s <= k THEN {SessionTag} ELSE {}]
    /\ original_emojis = [s \in Stickers |-> {}]
    /\ changes = [i \in 1..k |-> Change("u1", i, <<SessionTag>>, {})]
    /\ db = [tags |-> tags, original_emojis |-> original_emojis,
             changes |-> changes]
    /\ pc = "idle"
    /\ call = NoCall

InitSession ==
    /\ \E k \in 0..MaxStickers : InitTagged(k)
    /\ chat \in RestingChats
    /\ \E p1 \in S1Profiles, p2 \in S2Profiles :
        sets = [n \in SetNames |->
                  IF n = "s1" THEN p1 ELSE IF n = "s2" THEN p2
                  ELSE DefaultSet(n)]
    /\ last = NoHandler

NextSession ==
    \/ HandleNext
    \/ HandleTagNext
    \/ InitializeSetTagging
    \/ HandleCancelTagging
    \/ HandleFixStickerTags
    \/ HandleContinueTaggingSet

SpecSession == InitSession /\ [][NextSession]_vars

(***************************************************************************)
(* The normalizer on its own: get_tags_from_text applied to texts built    *)
(* from the pieces it treats specially.                                    *)
(***************************************************************************)
\* pieces of a text: letters, the hashtag, separators, an ignored character,
\* the inline-bot marker and name, and the link fragment
NormPieces ==
    { <<"a">>, <<"B">>, <<"x">>, <<"#">>, <<" ">>, <<",">>, <<"@">>,
      <<"b", "o", "t">>, telegramme }

\* ''.join(pieces)
RECURSIVE Concat(_)
Concat(ps) == IF ps = <<>> THEN <<>> ELSE Head(ps) \o Concat(Tail(ps))

NormTexts == {Concat(ps) : ps \in SeqsUpTo(NormPieces, MaxPieces)}

\* the limit argument: none, fewer than the tokens of a text, the default
NormLimits == {0, 1, 2, TagLimit}

\* the call of get_tags_from_text on the text and limit that are waiting
Normalize ==
    /\ pc = "idle"
    /\ last.op = "text"
    /\ last' = [op |-> "get_tags_from_text", arg |-> last.arg,
                limit |-> last.limit, res |-> "returned",
                ret |-> get_tags_from_text(last.arg, last.limit)]
    /\ UNCHANGED <<chat, sets>>
    /\ UNCHANGED engineVars

\* a text and a limit wait for the normalizer
InitNormalize ==
    /\ InitTagged(0)
    /\ chat = NoneChat
    /\ sets = [n \in SetNames |-> DefaultSet(n)]
    /\ \E text \in NormTexts, limit \in NormLimits :
        last = [op |-> "text", arg |-> text, limit |-> limit]

NextNormalize == Normalize

SpecNormalize == InitNormalize /\ [][NextNormalize]_vars

(***************************************************************************)
(* The inline keyboards and the callback data of their buttons.            *)
(***************************************************************************)
\* the button purposes, numbered in the order the callback codec lists them
CallbackType ==
    [ban_set |-> 1, nsfw_set |-> 2, fur_set |-> 3, newsfeed_next_set |-> 4,
     accept_language |-> 5, sticker_set_language |-> 6, task_vote_ban |-> 7,
     task_vote_nsfw |-> 8, task_user_revert |-> 9, tag_set |-> 10,
     next |-> 11, cancel |-> 12, edit_sticker |-> 13]

\* the outcomes, numbered in the order the callback codec lists them
CallbackResult == [ok |-> 1, ban |-> 2, revert |-> 3]

Digits == <<"0", "1", "2", "3", "4", "5", "6", "7", "8", "9">>

\* str(n) of a natural number, as an f-string field renders it
RECURSIVE Str(_)
Str(n) ==
    IF n < 10 THEN <<Digits[n + 1]>>
    ELSE Str(n \div 10) \o <<Digits[(n % 10) + 1]>>

\* int(s) of a field of callback data; -1 stands for the ValueError
RECURSIVE ParseInt(_)
ParseInt(s) ==
    IF s = <<>> \/ \E i \in 1..Len(s) : s[i] \notin Range(Digits) THEN -1
    ELSE LET d == CHOOSE k \in 0..9 : Digits[k + 1] = s[Len(s)]
         IN  IF Len(s) = 1 THEN d
             ELSE 10 * ParseInt(SubSeq(s, 1, Len(s) - 1)) + d

\* the characters of a set name
Chars(name) ==
    CASE name = "s1" -> <<"s", "1">>
      [] name = "s2" -> <<"s", "2">>
      [] name = "new" -> <<"n", "e", "w">>

\* f'{type}:{payload}:{result}'
callback_data(type, payload, result) ==
    Str(type) \o <<":">> \o payload \o <<":">> \o result

InlineKeyboardButton(text, data) == [text |-> text, callback_data |-> data]

\* a builder returned the markup / raised the error
Returned(buttons) == [res |-> "returned", ret |-> buttons]

Raised(error) == [res |-> error, ret |-> <<>>]

\* str.split(sep): one field per separator, empty fields kept
RECURSIVE SplitOnFrom(_, _, _, _)
SplitOnFrom(s, sep, cur, acc) ==
    IF s = <<>> THEN Append(acc, cur)
    ELSE IF Head(s) = sep THEN SplitOnFrom(Tail(s), sep, <<>>, Append(acc, cur))
    ELSE SplitOnFrom(Tail(s), sep, Append(cur, Head(s)), acc)

SplitOn(s, sep) == SplitOnFrom(s, sep, <<>>, <<>>)

MalformedCallback ==
    [action |-> "MalformedCallback", payload |-> <<>>, outcome |-> "-"]

\* decode of the callback codec: three colon-delimited fields, the first the
\* value of an action, the last the value of an outcome
decode(string) ==
    LET fields == SplitOn(string, ":")
    IN  IF Len(fields) # 3 THEN MalformedCallback
        ELSE LET a == ParseInt(fields[1])
                 o == ParseInt(fields[3])
             IN  IF \/ \A t \in DOMAIN CallbackType : CallbackType[t] # a
                    \/ \A r \in DOMAIN CallbackResult : CallbackResult[r] # o
                 THEN MalformedCallback
                 ELSE [action |-> CHOOSE t \in DOMAIN CallbackType :
                                      CallbackType[t] = a,
                       payload |-> fields[2],
                       outcome |-> CHOOSE r \in DOMAIN CallbackResult :
                                      CallbackResult[r] = o]

\* the sets shown in the newsfeed and referenced by tasks
KeyboardSets == {"s1", "new"}

\* a moderation task: its id, whether it was reviewed, its sticker set,
\* whether its user was reverted, and the language it asks for
Task(id, reviewed, name, user_reverted, message) ==
    [id |-> id, reviewed |-> reviewed, sticker_set |-> name,
     user_reverted |-> user_reverted, message |-> message]

\* open and reviewed tasks, with the user reverted or not, asking for the
\* language of the set or for another one
Tasks ==
    { Task(7, FALSE, "s1", FALSE, "english"),
      Task(7, TRUE, "s1", TRUE, "english"),
      Task(12, TRUE, "new", FALSE, "german"),
      Task(12, FALSE, "new", TRUE, "german") }

\* the accepted argument of get_language_accept_keyboard
Accepted == {"None", "True", "False"}

\* a sticker set row with the columns the keyboards read besides the flags
ReviewRow(row, reviewed, language) ==
    [f \in DOMAIN row \cup {"reviewed", "language"} |->
        IF f = "reviewed" THEN reviewed
        ELSE IF f = "language" THEN language ELSE row[f]]

get_nsfw_ban_keyboard_inverted(name, sset) ==
    LET ban_type == CallbackType["ban_set"]
        nsfw_type == CallbackType["nsfw_set"]
        fur_type == CallbackType["fur_set"]
        next_type == CallbackType["newsfeed_next_set"]
        ok == Str(CallbackResult["ok"])
        ban == Str(CallbackResult["ban"])
        nsfw == IF sset.nsfw
                THEN InlineKeyboardButton("Revert nsfw tag",
                         callback_data(nsfw_type, Chars(name), ok))
                ELSE InlineKeyboardButton("Tag as nsfw",
                         callback_data(nsfw_type, Chars(name), ban))
        banb == IF sset.banned
                THEN InlineKeyboardButton("Revert ban tag",
                         callback_data(ban_type, Chars(name), ban))
                ELSE InlineKeyboardButton("Ban this set",
                         callback_data(ban_type, Chars(name), ok))
        fur == IF sset.furry
               THEN InlineKeyboardButton("Revert furry tag",
                        callback_data(fur_type, Chars(name), ok))
               ELSE InlineKeyboardButton("Tag as Furry",
                        callback_data(fur_type, Chars(name), ban))
        buttons == << <<banb, fur>>, <<nsfw>> >>
        button == InlineKeyboardButton("Next",
                      callback_data(next_type, Chars(name), ok))
    IN  IF ~sset.reviewed
        THEN Returned(<<buttons[1], Append(buttons[2], button)>>)
        ELSE Returned(buttons)

\* the keyboard of a newsfeed message for the set of that name
get_nsfw_ban_keyboard(name, sset) ==
    LET ban_type == CallbackType["ban_set"]
        nsfw_type == CallbackType["nsfw_set"]
        fur_type == CallbackType["fur_set"]
        next_type == CallbackType["newsfeed_next_set"]
        ok == Str(CallbackResult["ok"])
        ban == Str(CallbackResult["ban"])
        nsfw == IF sset.nsfw
                THEN InlineKeyboardButton("Revert nsfw tag",
                         callback_data(nsfw_type, Chars(name), ok))
                ELSE InlineKeyboardButton("Tag as nsfw",
                         callback_data(nsfw_type, Chars(name), ban))
        banb == IF sset.banned
                THEN InlineKeyboardButton("Revert ban tag",
                         callback_data(ban_type, Chars(name), ok))
                ELSE InlineKeyboardButton("Ban this set",
                         callback_data(ban_type, Chars(name), ban))
        fur == IF sset.furry
               THEN InlineKeyboardButton("Revert furry tag",
                        callback_data(fur_type, Chars(name), ok))
               ELSE InlineKeyboardButton("Tag as Furry",
                        callback_data(fur_type, Chars(name), ban))
        buttons == << <<banb, fur>>, <<nsfw>> >>
        button == InlineKeyboardButton("Next",
                      callback_data(next_type, Chars(name), ok))
    IN  IF ~sset.reviewed
        THEN Returned(<<buttons[1], Append(buttons[2], button)>>)
        ELSE Returned(buttons)

\* the keyboard of a vote ban task: each branch binds one of the two names
\* of its pair, the button list reads all four
get_vote_ban_keyboard(task, sset) ==
    LET ban_type == CallbackType["task_vote_ban"]
        nsfw_type == CallbackType["task_vote_nsfw"]
        ok == Str(CallbackResult["ok"])
        ban == Str(CallbackResult["ban"])
        bound == (IF sset.banned THEN {"ban_data_ok"}
                  ELSE {"ban_data_ban"})
                 \cup (IF sset.nsfw THEN {"nsfw_data_ok"}
                       ELSE {"nsfw_data_ban"})
        value == [ban_data_ok |-> callback_data(ban_type, Str(task.id), ok),
                  ban_data_ban |-> callback_data(ban_type, Str(task.id), ban),
                  nsfw_data_ok |-> callback_data(nsfw_type, Str(task.id), ok),
                  nsfw_data_ban |-> callback_data(nsfw_type, Str(task.id), ban)]
    IN  IF DOMAIN value \subseteq bound
        THEN Returned(<< << InlineKeyboardButton("Unban set", value.ban_data_ok),
                            InlineKeyboardButton("Ban set", value.ban_data_ban) >>,
                         << InlineKeyboardButton("Unban set", value.nsfw_data_ok),
                            InlineKeyboardButton("Ban set", value.nsfw_data_ban) >> >>)
        ELSE Raised("UnboundLocalError")

\* the keyboard of a user revert task
get_user_revert_keyboard(task) ==
    LET callback_type == CallbackType["task_user_revert"]
        ok_data == callback_data(callback_type, Str(task.id),
                                 Str(CallbackResult["ok"]))
        revert_data == callback_data(callback_type, Str(task.id),
                                     Str(CallbackResult["revert"]))
    IN  IF ~task.reviewed
        THEN Returned(<< << InlineKeyboardButton("Revert changes and Ban user",
                                                 revert_data),
                            InlineKeyboardButton("Everything is fine",
                                                 ok_data) >> >>)
        ELSE IF task.user_reverted
        THEN Returned(<< << InlineKeyboardButton("Undo revert", ok_data) >> >>)
        ELSE Returned(<< << InlineKeyboardButton("Revert changes and Ban user",
                                                 revert_data) >> >>)

\* the button for tagging a specific set
get_tag_this_set_keyboard(set_name) ==
    Returned(<< << InlineKeyboardButton("Tag this sticker set.",
        callback_data(CallbackType["tag_set"], Chars(set_name), <<"0">>)) >> >>)

\* get_tagging_keyboard(), called without arguments as keyboard.py defines it
tagging_keyboard ==
    LET next_data == callback_data(CallbackType["next"], <<"0">>, <<"0">>)
        cancel_data == callback_data(CallbackType["cancel"], <<"0">>, <<"0">>)
    IN  Returned(<< << InlineKeyboardButton("Stop tagging", cancel_data),
                       InlineKeyboardButton("Skip this sticker", next_data) >> >>)

\* the button for fixing the tags of the sticker of that file id
get_fix_sticker_tags_keyboard(file_id) ==
    Returned(<< << InlineKeyboardButton("Fix this sticker's tags",
        callback_data(CallbackType["edit_sticker"], Str(file_id), <<"0">>)) >> >>)

\* the keyboard for accepting or declining a language
get_language_accept_keyboard(task, accepted) ==
    LET callback_type == CallbackType["accept_language"]
        language_ok == callback_data(callback_type, Str(task.id),
                                     Str(CallbackResult["ok"]))
        language_ban == callback_data(callback_type, Str(task.id),
                                      Str(CallbackResult["ban"]))
    IN  IF ~task.reviewed
        THEN Returned(<< << InlineKeyboardButton("Deny this language",
                                                 language_ban),
                            InlineKeyboardButton("Accept this language",
                                                 language_ok) >> >>)
        ELSE IF accepted = "True"
        THEN Returned(<< << InlineKeyboardButton("Delete this language",
                                                 language_ban) >> >>)
        ELSE Returned(<< << InlineKeyboardButton("Accept this language",
                                                 language_ok) >> >>)

\* the keyboard for accepting or declining the language of a sticker set
get_sticker_set_language_keyboard(task, sset) ==
    LET callback_type == CallbackType["sticker_set_language"]
        language_ok == callback_data(callback_type, Str(task.id),
                                     Str(CallbackResult["ok"]))
        language_ban == callback_data(callback_type, Str(task.id),
                                      Str(CallbackResult["ban"]))
    IN  IF ~task.reviewed
        THEN Returned(<< << InlineKeyboardButton("Deny", language_ban),
                            InlineKeyboardButton("Accept", language_ok) >> >>)
        ELSE IF sset.language = task.message
        THEN Returned(<< << InlineKeyboardButton("Revert to english",
                                                 language_ban) >> >>)
        ELSE Returned(<< << InlineKeyboardButton("Accept", language_ok) >> >>)

\* the flag a toggle action is about
flag_of(action) ==
    CASE action = "ban_set" -> "banned"
      [] action = "nsfw_set" -> "nsfw"
      [] action = "fur_set" -> "furry"
      [] OTHER -> "reviewed"

\* a pressed newsfeed button applied to the set: outcome ban sets the flag,
\* outcome ok clears it, Next takes the set out of the review queue
apply_outcome(sset, action, outcome) ==
    IF action = "newsfeed_next_set"
    THEN [sset EXCEPT !["reviewed"] = TRUE]
    ELSE [sset EXCEPT ![flag_of(action)] = (outcome = "ban")]

\* the keyboard that was built last
Rendered(op, arg, result) ==
    /\ pc = "idle"
    /\ last' = [op |-> op, arg |-> arg, res |-> result.res,
                ret |-> result.ret, action |-> "-", outcome |-> "-"]
    /\ UNCHANGED <<chat, sets>>
    /\ UNCHANGED engineVars

RenderNewsfeed ==
    \E name \in KeyboardSets :
        Rendered("get_nsfw_ban_keyboard", name,
                 get_nsfw_ban_keyboard(name, sets[name]))

\* a moderator presses a button of the newsfeed keyboard shown last: the
\* callback is decoded, applied to the set, and the keyboard built again
PressNewsfeedButton ==
    /\ pc = "idle"
    /\ last.op \in {"get_nsfw_ban_keyboard", "press"}
    /\ last.res = "returned"
    /\ \E r \in 1..Len(last.ret) : \E c \in 1..Len(last.ret[r]) :
        LET d == decode(last.ret[r][c].callback_data)
            name == CHOOSE n \in SetNames : Chars(n) = d.payload
            row == apply_outcome(sets[name], d.action, d.outcome)
            result == get_nsfw_ban_keyboard(name, row)
        IN  /\ d # MalformedCallback
            /\ sets' = [sets EXCEPT ![name] = row]
            /\ last' = [op |-> "press", arg |-> name, res |-> result.res,
                        ret |-> result.ret, action |-> d.action,
                        outcome |-> d.outcome]
    /\ UNCHANGED chat
    /\ UNCHANGED engineVars

RenderVoteBan ==
    \E task \in Tasks :
        Rendered("get_vote_ban_keyboard", task,
                 get_vote_ban_keyboard(task, sets[task.sticker_set]))

RenderUserRevert ==
    \E task \in Tasks :
        Rendered("get_user_revert_keyboard", task,
                 get_user_revert_keyboard(task))

RenderTagThisSet ==
    \E name \in KeyboardSets :
        Rendered("get_tag_this_set_keyboard", name,
                 get_tag_this_set_keyboard(name))

RenderTagging == Rendered("get_tagging_keyboard", "-", tagging_keyboard)

RenderFixStickerTags ==
    \E file_id \in Stickers :
        Rendered("get_fix_sticker_tags_keyboard", file_id,
                 get_fix_sticker_tags_keyboard(file_id))

RenderLanguageAccept ==
    \E task \in Tasks, accepted \in Accepted :
        Rendered("get_language_accept_keyboard", <<task, accepted>>,
                 get_language_accept_keyboard(task, accepted))

RenderStickerSetLanguage ==
    \E task \in Tasks :
        Rendered("get_sticker_set_language_keyboard", task,
                 get_sticker_set_language_keyboard(task,
                                                   sets[task.sticker_set]))

\* the sets of the newsfeed with any flags, reviewed or not
InitKeyboard ==
    /\ InitTagged(0)
    /\ chat = NoneChat
    /\ \E flags \in [KeyboardSets ->
                       [banned : BOOLEAN, nsfw : BOOLEAN, furry : BOOLEAN,
                        reviewed : BOOLEAN]] :
        sets = [n \in SetNames |->
                  IF n \in KeyboardSets
                  THEN ReviewRow([DefaultSet(n) EXCEPT
                                     !.banned = flags[n].banned,
                                     !.nsfw = flags[n].nsfw,
                                     !.furry = flags[n].furry],
                                 flags[n].reviewed, "english")
                  ELSE ReviewRow(DefaultSet(n), FALSE, "english")]
    /\ last = [op |-> "none", arg |-> "-", res |-> "none", ret |-> <<>>,
               action |-> "-", outcome |-> "-"]

NextKeyboard ==
    \/ RenderNewsfeed
    \/ PressNewsfeedButton
    \/ RenderVoteBan
    \/ RenderUserRevert
    \/ RenderTagThisSet
    \/ RenderTagging
    \/ RenderFixStickerTags
    \/ RenderLanguageAccept
    \/ RenderStickerSetLanguage

SpecKeyboard == InitKeyboard /\ [][NextKeyboard]_vars

(***************************************************************************)
(* Properties of the tag change engine, checked under SpecTag. A call that *)
(* left tag_sticker at 190 raised on the /tag command, one that left at    *)
(* 202 raised on the reward message; neither got to the sticker's tags.    *)
(***************************************************************************)

\* C1 (additive tagging): a tag_sticker call with replace = False whose text
\* resolves to the tags R, with R \ T non-empty for the sticker's tags T,
\* goes on to change the sticker; when it leaves the function the sticker's
\* tags are T \cup R, in the session and committed, and the call has recorded
\* exactly one Change, with added = R \ T and removed = {}.
C1_AdditiveTagging ==
    [][ /\ (/\ pc = "idle" /\ call' # call
            /\ call'.exit \notin {190, 202}
            /\ ~call'.replace
            /\ call'.R \ tags[call'.sticker] # {})
           => pc' = "mutate"
        /\ (pc = "markup" /\ ~call.replace)
           => LET s == call.sticker
              IN  /\ tags'[s] = call.T \cup call.R
                  /\ Len(changes') = call.n + 1
                  /\ changes'[call.n + 1].sticker = s
                  /\ changes'[call.n + 1].added = call.R \ call.T
                  /\ changes'[call.n + 1].removed = {}
                  /\ db'.tags[s] = tags'[s]
                  /\ db'.changes = changes'
      ]_vars

\* an additive call returned after adding a tag to a sticker that already had
\* one of the tags of the text and one the text does not name
C1_Witness ==
    /\ pc = "idle" /\ call.exit = 259 /\ ~call.replace
    /\ call.R \cap call.T # {}
    /\ call.R \ call.T # {}
    /\ call.T \ call.R # {}
    /\ tags[call.sticker] = call.T \cup call.R

\* C2 (replace preserves protected tags): a tag_sticker call with
\* replace = True on a sticker with tags T and original emojis E, E a subset
\* of T, whose text resolves to R with R \ T non-empty goes on to change the
\* sticker; when it leaves the function the sticker's tags are R \cup E, the
\* one Change it recorded has added = R \ T and removed = T \ (R \cup E), and
\* no member of E is in added or removed.
C2_ReplacePreservesProtected ==
    [][ /\ (/\ pc = "idle" /\ call' # call
            /\ call'.exit \notin {190, 202}
            /\ call'.replace
            /\ call'.R \ tags[call'.sticker] # {})
           => pc' = "mutate"
        /\ (/\ pc = "markup" /\ call.replace
            /\ original_emojis'[call.sticker] \subseteq call.T)
           => LET s == call.sticker
                  E == original_emojis'[s]
                  c == changes'[call.n + 1]
              IN  /\ tags'[s] = call.R \cup E
                  /\ Len(changes') = call.n + 1
                  /\ c.sticker = s
                  /\ c.added = call.R \ call.T
                  /\ c.removed = call.T \ (call.R \cup E)
                  /\ E \cap (c.added \cup c.removed) = {}
                  /\ db'.tags[s] = tags'[s]
                  /\ db'.changes = changes'
      ]_vars

\* a replacing call returned after it removed a tag from a sticker that has
\* an original emoji
C2_Witness ==
    /\ pc = "idle" /\ call.exit = 259 /\ call.replace
    /\ original_emojis[call.sticker] # {}
    /\ original_emojis[call.sticker] \subseteq call.T
    /\ call.T \ tags[call.sticker] # {}
    /\ tags[call.sticker] = call.R \cup original_emojis[call.sticker]

\* C3 (no-op on no new tags): a tag_sticker call whose text resolves only to
\* tags the sticker has, or to no tag at all, creates no Change and leaves the
\* sticker's tags and original emojis as they were, whatever replace is.
C3_NoOpOnNoNewTags ==
    [][ (/\ pc = "idle" /\ call' # call
         /\ call'.exit # 190
         /\ call'.R \subseteq tags[call'.sticker])
        => /\ pc' = "idle"
           /\ call'.exit \in {194, 202, 230}
           /\ tags' = tags
           /\ original_emojis' = original_emojis
           /\ changes' = changes
           /\ db'.changes = db.changes
      ]_vars

\* a replacing call returned at 230: its text named a tag of the sticker and
\* left out another one, which a replacement would have removed
C3_Witness ==
    /\ pc = "idle" /\ call.exit = 230 /\ call.replace
    /\ call.R # {}
    /\ call.R \subseteq tags[call.sticker]
    /\ \E t \in tags[call.sticker] \ call.R : ~t.emoji

\* C4 (original emojis are tags): in every state, also between the steps of a
\* call, the original emojis of every sticker are among its tags, in the
\* session and in what is committed.
C4_OriginalEmojisAreTags ==
    \A s \in Stickers :
        /\ original_emojis[s] \subseteq tags[s]
        /\ db.original_emojis[s] \subseteq db.tags[s]

\* a replacing call has just taken tags off a sticker that has original emojis
C4_Witness ==
    /\ pc = "change" /\ call.replace
    /\ call.removed_tags # {}
    /\ original_emojis[call.sticker] # {}

\* C5 (atomic tag change): every commit changes the committed non-emoji tags
\* of a sticker if and only if it adds one Change for that sticker, and that
\* Change tells the difference: the tags after are the tags before without
\* removed and with added. Changes are only ever appended, one per commit.
C5_AtomicTagChange ==
    [][ LET n == Len(db.changes)
        IN  /\ Len(db'.changes) \in {n, n + 1}
            /\ SubSeq(db'.changes, 1, n) = db.changes
            /\ \A s \in Stickers :
                LET before == {t \in db.tags[s] : ~t.emoji}
                    after == {t \in db'.tags[s] : ~t.emoji}
                    recorded == /\ Len(db'.changes) = n + 1
                                /\ db'.changes[n + 1].sticker = s
                IN  /\ (after # before) <=> recorded
                    /\ recorded =>
                         after = (before \ db'.changes[n + 1].removed)
                                    \cup db'.changes[n + 1].added
      ]_vars

\* the session holds the changed tags and their Change, and nothing of it is
\* committed
C5_Witness ==
    /\ pc = "commit"
    /\ tags[call.sticker] # db.tags[call.sticker]
    /\ Len(changes) = Len(db.changes) + 1
    /\ db.tags[call.sticker] = call.T

(***************************************************************************)
(* Further properties of the tag change engine, checked under SpecTag.     *)
(***************************************************************************)

\* C13 (command stripping): a tag_sticker call on a text that begins with the
\* command /tag does what the same call does on the text without the command
\* word, and so does not raise.
C13_CommandStripping ==
    [][ \A text \in {t \in Texts : StartsWith(Lower(t), <<"/", "t", "a", "g">>)},
           sticker \in EngineStickers, user \in Users, replace \in BOOLEAN,
           ctx \in CallContexts, tg_ok \in BOOLEAN :
            TagStickerCallWith(text, sticker, user, replace, ctx, tg_ok)
            => TagStickerCallWith(Join(Tail(Split(text))), sticker, user,
                                  replace, ctx, tg_ok)
      ]_vars

\* C18 (milestone notification): a tag_sticker call sends the reward message
\* only if it records a Change, never when it ends as a no-op, and a reward
\* message the transport refuses does not keep the tags of the text off the
\* sticker.
C18_MilestoneNotification ==
    /\ (pc = "idle" /\ \E i \in 1..Len(call.out) : call.out[i] = "reward")
       => call.exit \in {256, 257, 259}
    /\ call.exit = 202 => call.R \subseteq db.tags[call.sticker]

\* C20 (revertible change records): the Change a tag_sticker call records on
\* a sticker whose tags were T before and are T2 after has removed within T,
\* added disjoint from T and from removed, and T = (T2 \ added) \cup removed.
C20_RevertibleChange ==
    [][ pc = "markup"
        => LET c == changes'[call.n + 1]
               T == call.T
               T2 == tags'[call.sticker]
           IN  /\ c.sticker = call.sticker
               /\ c.removed \subseteq T
               /\ c.added \cap T = {}
               /\ c.added \cap c.removed = {}
               /\ T = (T2 \ c.added) \cup c.removed
               /\ db'.changes = changes'
      ]_vars

\* a replacing call recorded a Change that both adds and removes tags of a
\* sticker that keeps an original emoji
C20_Witness ==
    /\ pc = "idle" /\ call.exit = 259
    /\ changes # <<>>
    /\ changes[Len(changes)].added # {}
    /\ changes[Len(changes)].removed # {}
    /\ original_emojis[call.sticker] \cap tags[call.sticker] # {}
    /\ call.T = (tags[call.sticker] \ changes[Len(changes)].added)
                    \cup changes[Len(changes)].removed

(***************************************************************************)
(* Properties of the session handlers, checked under SpecSession. `last`   *)
(* is the latest handler run: the chat it started from, the calls it made  *)
(* and how it ended.                                                       *)
(***************************************************************************)

\* C6 (session advance at set end): handle_next in STICKER_SET mode on the
\* last sticker of its set marks the set completely tagged; when no transport
\* call fails it sends the completion message, then the user's tagged count,
\* and leaves the chat in mode NONE with no current sticker.
C6_SessionAdvanceAtSetEnd ==
    (/\ last.op \in {"handle_next", "handle_tag_next"}
     /\ last.pre.tag_mode = "STICKER_SET"
     /\ last.pre.current_sticker # None
     /\ LET st == SetStickers(sticker_set(last.pre.current_sticker))
        IN  last.pre.current_sticker = st[Len(st)])
    => /\ sets[sticker_set(last.pre.current_sticker)].completely_tagged
       /\ last.res \in {"returned", "TransportError"}
       /\ last.res = "returned" =>
            /\ \E user \in SessionUsers :
                last.out = << Ev("full_set_tagged", 0),
                              Ev("tagged_count", tagged_count(user)),
                              Ev("chat.cancel", 0) >>
            /\ chat = NoneChat

\* handle_next ended a set session whose user had tagged a sticker
C6_Witness ==
    /\ last.op = "handle_next"
    /\ last.pre.tag_mode = "STICKER_SET"
    /\ last.pre.current_sticker = MaxStickers - 1
    /\ last.res = "returned"
    /\ Len(last.out) = 3 /\ last.out[2].count > 0
    /\ sets["s1"].completely_tagged
    /\ chat = NoneChat

\* C7 (random with nothing left): handle_next in RANDOM mode, when no sticker
\* is eligible and the transport works, tells the user that everything is
\* tagged, cancels the session and returns without an error and without
\* another call.
C7_RandomWithNothingLeft ==
    (/\ last.op = "handle_next"
     /\ last.pre.tag_mode = "RANDOM"
     /\ base_query(sets) = {}
     /\ last.res # "TransportError")
    => /\ last.res = "returned"
       /\ last.out = << Ev("all_tagged", 0), Ev("chat.cancel", 0) >>
       /\ chat = NoneChat

\* C8 (random eligibility), as stated: the sticker handle_next selects in
\* RANDOM mode has no Change, belongs to a set that is complete, of the
\* default language and neither banned, nsfw nor furry, and belongs to a
\* deluxe set whenever a deluxe set has an eligible sticker.
C8_RandomEligibility ==
    LET cur == chat.current_sticker
        Fit(s) == /\ \A i \in 1..Len(changes) : changes[i].sticker # s
                  /\ sets[sticker_set(s)].complete
                  /\ sets[sticker_set(s)].is_default_language
                  /\ ~sets[sticker_set(s)].banned
                  /\ ~sets[sticker_set(s)].nsfw
                  /\ ~sets[sticker_set(s)].furry
    IN  (/\ last.op \in {"handle_next", "handle_tag_next"}
         /\ last.pre.tag_mode = "RANDOM"
         /\ last.res # "TransportError"
         /\ cur # None)
        => /\ Fit(cur)
           /\ (\E s \in Stickers : Fit(s) /\ sets[sticker_set(s)].deluxe)
                => sets[sticker_set(cur)].deluxe

\* C8 (random eligibility), without the completeness of the set: the sticker
\* handle_next selects in RANDOM mode has no Change, belongs to a set of the
\* default language that is neither banned, nsfw nor furry, and belongs to a
\* deluxe set whenever a deluxe set has such a sticker.
C8_RandomEligibilityOfQuery ==
    LET cur == chat.current_sticker
        Fit(s) == /\ \A i \in 1..Len(changes) : changes[i].sticker # s
                  /\ sets[sticker_set(s)].is_default_language
                  /\ ~sets[sticker_set(s)].banned
                  /\ ~sets[sticker_set(s)].nsfw
                  /\ ~sets[sticker_set(s)].furry
    IN  (/\ last.op \in {"handle_next", "handle_tag_next"}
         /\ last.pre.tag_mode = "RANDOM"
         /\ last.res # "TransportError"
         /\ cur # None)
        => /\ Fit(cur)
           /\ (\E s \in Stickers : Fit(s) /\ sets[sticker_set(s)].deluxe)
                => sets[sticker_set(cur)].deluxe

\* handle_next selected the sticker of the deluxe set while a sticker of the
\* other set, not deluxe, had no Change either and a third one had one
C8_Witness ==
    /\ last.op = "handle_next"
    /\ last.pre.tag_mode = "RANDOM"
    /\ last.res # "TransportError"
    /\ chat.current_sticker = MaxStickers
    /\ sets["s2"].deluxe /\ ~sets["s1"].deluxe
    /\ sets["s1"].is_default_language
    /\ Len(changes) = 1
    /\ last.pre.current_sticker # MaxStickers

\* C9 (set not ready): initialize_set_tagging on a set that is not complete
\* leaves the chat as it was, makes no call to the transport and returns the
\* message that the set is being added.
C9_SetNotReady ==
    (last.op = "initialize_set_tagging" /\ ~sets[last.arg].complete)
    => /\ chat = last.pre
       /\ last.out = <<>>
       /\ last.res = "returned"
       /\ last.ret = "being_added"

\* initialize_set_tagging was called for a set under import from a chat with
\* a running session
C9_Witness ==
    /\ last.op = "initialize_set_tagging"
    /\ last.arg = "s1" /\ ~sets["s1"].complete
    /\ last.pre.tag_mode = "RANDOM"
    /\ last.pre.last_sticker_message_id # None
    /\ last.ret = "being_added"
    /\ chat = last.pre

\* C10 (cancel handler): handle_cancel_tagging, when no transport call fails,
\* leaves the chat in mode NONE with no current sticker and no sticker
\* message; it reports the user's tagged count exactly when the mode was
\* STICKER_SET or RANDOM, and before it clears the chat; from mode NONE it
\* changes nothing of the chat.
C10_CancelHandler ==
    (last.op = "handle_cancel_tagging" /\ last.res # "TransportError")
    => LET counted == {i \in 1..Len(last.out) : last.out[i].msg = "tagged_count"}
           cleared == {i \in 1..Len(last.out) : last.out[i].msg = "chat.cancel"}
       IN  /\ last.res = "returned"
           /\ chat = NoneChat
           /\ (counted # {}) <=> (last.pre.tag_mode \in {"STICKER_SET", "RANDOM"})
           /\ cleared # {}
           /\ \A i \in counted, j \in cleared : i < j
           /\ last.pre.tag_mode = "NONE" => chat = last.pre

\* a set session with a sticker message was cancelled after the count was sent
C10_Witness ==
    /\ last.op = "handle_cancel_tagging"
    /\ last.res = "returned"
    /\ last.pre.tag_mode = "STICKER_SET"
    /\ last.pre.last_sticker_message_id # None
    /\ last.out[1].msg = "tagged_count"
    /\ chat = NoneChat

\* C14 (entering STICKER_SET mode): initialize_set_tagging on a complete set,
\* when the transport works, puts the chat in mode STICKER_SET on the first
\* sticker of the set, sends the instructional text and then the prompt with
\* the tagging keyboard, stores the id of that message in
\* last_sticker_message_id and returns.
C14_EnterStickerSetMode ==
    (/\ last.op = "initialize_set_tagging"
     /\ sets[last.arg].complete
     /\ last.res # "TransportError")
    => /\ last.res = "returned"
       /\ chat.tag_mode = "STICKER_SET"
       /\ chat.current_sticker = SetStickers(last.arg)[1]
       /\ Len(last.out) >= 2
       /\ last.out[1] = Ev("tag_text", 0)
       /\ chat.last_sticker_message_id \in MsgIds

C21_SessionConsistency ==
    (chat.current_sticker # None) <=> (chat.tag_mode # "NONE")

(***************************************************************************)
(* Properties of the normalizer, checked under SpecNormalize.              *)
(***************************************************************************)

\* C12 (normalizer idempotence): for every text, normalizing the tokens of
\* get_tags_from_text(text), joined by single spaces, gives the same sequence
\* as get_tags_from_text(text).
C12_NormalizerIdempotence ==
    (last.op = "get_tags_from_text" /\ last.limit = TagLimit)
    => get_tags_from_text(Join(last.ret), TagLimit) = last.ret

\* C19 (normalizer output well-formedness): for every text and every limit,
\* get_tags_from_text returns without error at most `limit` tokens that are
\* pairwise distinct, non-empty, not in the blacklist and free of the link
\* fragment.
C19_NormalizerWellFormed ==
    last.op = "get_tags_from_text"
    => /\ last.res = "returned"
       /\ Len(last.ret) <= last.limit
       /\ \A i, j \in 1..Len(last.ret) : last.ret[i] = last.ret[j] => i = j
       /\ \A i \in 1..Len(last.ret) :
            /\ last.ret[i] # <<>>
            /\ last.ret[i] \notin blacklist
            /\ ~Contains(last.ret[i], telegramme)

(***************************************************************************)
(* Properties of the keyboards, checked under SpecKeyboard.                *)
(***************************************************************************)
\* C11 (flag toggle rendering): the newsfeed keyboard of a set is built
\* without error and holds, for each flag of banned, nsfw and furry, exactly
\* one button; that button carries the set name as payload and the outcome
\* ban when the flag is false, ok when it is true. A Next button (outcome ok,
\* same payload) is there exactly when the set is not reviewed, and there are
\* no other buttons. After a pressed toggle was applied and the keyboard built
\* again, the flag is as the outcome says and the button of that flag carries
\* the other outcome.
C11_FlagToggleRendering ==
    last.op \in {"get_nsfw_ban_keyboard", "press"} =>
        LET kb == last.ret
            sset == sets[last.arg]
            pos == {rc \in (1..Len(kb)) \X (1..3) : rc[2] <= Len(kb[rc[1]])}
            d == [rc \in pos |-> decode(kb[rc[1]][rc[2]].callback_data)]
            toggles == {"ban_set", "nsfw_set", "fur_set"}
        IN  /\ last.res = "returned"
            /\ \A a \in toggles :
                /\ Cardinality({rc \in pos : d[rc].action = a}) = 1
                /\ \A rc \in pos : d[rc].action = a =>
                    /\ d[rc].payload = Chars(last.arg)
                    /\ d[rc].outcome = IF sset[flag_of(a)] THEN "ok" ELSE "ban"
            /\ (\E rc \in pos : d[rc].action = "newsfeed_next_set")
                    <=> ~sset.reviewed
            /\ \A rc \in pos : d[rc].action = "newsfeed_next_set" =>
                    /\ d[rc].payload = Chars(last.arg)
                    /\ d[rc].outcome = "ok"
            /\ \A rc \in pos :
                    d[rc].action \in toggles \cup {"newsfeed_next_set"}
            /\ (last.op = "press" /\ last.action \in toggles) =>
                    /\ sset[flag_of(last.action)] = (last.outcome = "ban")
                    /\ \A rc \in pos : d[rc].action = last.action =>
                            d[rc].outcome # last.outcome

\* a ban button was pressed on a set under review: the set is banned now and
\* its keyboard, with the Next button, was built again
C11_Witness ==
    /\ last.op = "press"
    /\ last.action = "ban_set"
    /\ last.outcome = "ban"
    /\ sets[last.arg].banned
    /\ ~sets[last.arg].reviewed
    /\ Len(last.ret) = 2
    /\ Len(last.ret[2]) = 2

\* C16 (vote-ban task rendering): the keyboard of a vote ban task is built
\* without error whatever the banned and nsfw flags of its set are, and holds
\* for each of the two flags exactly one toggle, with the id of the task as
\* payload and the outcome ban when the flag is false, ok when it is true.
C16_VoteBanRendering ==
    last.op = "get_vote_ban_keyboard" =>
        LET kb == last.ret
            task == last.arg
            sset == sets[task.sticker_set]
            pos == {rc \in (1..Len(kb)) \X (1..2) : rc[2] <= Len(kb[rc[1]])}
            d == [rc \in pos |-> decode(kb[rc[1]][rc[2]].callback_data)]
        IN  /\ last.res = "returned"
            /\ \A a \in {"task_vote_ban", "task_vote_nsfw"} :
                /\ Cardinality({rc \in pos : d[rc].action = a}) = 1
                /\ \A rc \in pos : d[rc].action = a =>
                    /\ d[rc].payload = Str(task.id)
                    /\ d[rc].outcome =
                         IF (IF a = "task_vote_ban" THEN sset.banned
                             ELSE sset.nsfw)
                         THEN "ok" ELSE "ban"

\* C17 (well-formed callbacks): the callback data of every button of every
\* keyboard that was built splits into exactly three colon-delimited fields,
\* the first the value of an action and the last the value of one of the
\* outcomes ok, ban and revert, so that decode does not fail on it.
C17_WellFormedCallbacks ==
    (last.op # "none" /\ last.res = "returned") =>
        \A r \in 1..Len(last.ret) : \A c \in 1..Len(last.ret[r]) :
            LET data == last.ret[r][c].callback_data
                fields == SplitOn(data, ":")
            IN  /\ Len(fields) = 3
                /\ \E t \in DOMAIN CallbackType :
                        CallbackType[t] = ParseInt(fields[1])
                /\ \E o \in DOMAIN CallbackResult :
                        CallbackResult[o] = ParseInt(fields[3])
                /\ decode(data) # MalformedCallback

====
